---------------------------- MODULE Spec2Model ----------------------------
(***************************************************************************)
(* A model of the remind101/amqp client wrapper (package amqp): one        *)
(* Exchange owning a connection and a channel, Queues declared on it, the  *)
(* consume goroutine started by Queue.Subscribe, Queue.Close and           *)
(* Exchange.Close, and the NullAcknowledger.                               *)
(*                                                                         *)
(* The wrapper delegates to github.com/streadway/amqp and to the broker.   *)
(* Their behaviour is modelled at the call sites of the wrapper:           *)
(*   - Channel.Consume returns an unbuffered Go channel fed by a library   *)
(*     goroutine that queues the broker's deliveries without limit (dd);   *)
(*   - Channel.Cancel stops the broker's deliveries; what is already       *)
(*     queued is still handed out, then the delivery channel is closed;    *)
(*   - a channel shutdown (Channel.Close, a channel exception, a lost      *)
(*     connection) drops what is queued, closes every delivery channel,    *)
(*     sends the error (if any) to the NotifyClose listeners and closes    *)
(*     them; the broker requeues the unacknowledged deliveries;            *)
(*   - every call on a closed channel or connection returns ErrClosed;     *)
(*   - Channel.Ack and Channel.Nack send a frame and return nil on a live  *)
(*     channel; the broker answers a tag that is not outstanding by        *)
(*     closing the channel;                                                *)
(*   - a basic.cancel from the broker closes the delivery channel of that  *)
(*     consumer and leaves the channel live.                               *)
(***************************************************************************)
EXTENDS Naturals, Sequences, FiniteSets

\* Bounds of the model.
MaxMsgs == 3          \* messages published
MaxDeliveries == 3    \* deliveries (delivery tags) the broker makes
MaxPrefetch == 2      \* largest PrefetchCount / PrefetchSize passed to NewQueue
MaxAckCalls == 3      \* Ack/Nack calls on one NullAcknowledger
MaxSubs == 2          \* Subscribe calls on one Queue that start a consume task

Queues == {"q1", "q2"}           \* queue names (a Queue's routing key is its name)
NullAcks == {"a1", "a2"}         \* NullAcknowledger instances

\* Acknowledgement, part_000:339-344 (iota)
Unacknowledged == 0
Acked == 1
Requeued == 2
Dropped == 3

VARIABLES
    \* Exchange (client side) and broker
    chanOpen,      \* the amqp.Channel of the Exchange is live
    connOpen,      \* the amqp.Connection of the Exchange is live
    qos,           \* the channel's prefetch limit [count, size]; 0 = no limit
    declared,      \* queue names for which NewQueue returned a Queue
    opts,          \* the QueueOptions prefetch values each Queue was built with
    bound,         \* queue is bound to the exchange (by Subscribe)
    consumer,      \* the broker has a consumer on the queue
    ready,         \* broker: bodies waiting in each queue
    unacked,       \* broker: deliveries [tag, q, body] not yet acknowledged
    nextTag,       \* broker: next delivery tag of the channel
    nPub,          \* number of Publish calls that succeeded
    routed,        \* history: bodies routed to each queue, in publish order
    nackRequeued,  \* history: some delivery was rejected with requeue
    \* delivery stream dd of each subscription
    dd,            \* deliveries queued by the library for the consume task
    delivered,     \* history: deliveries the broker placed on the stream
    cancelled,     \* the consumer was cancelled (stream closes once drained)
    \* consume task of each Queue
    pc,            \* "none" | "recv" | "send" | "done"
    held,          \* the delivery taken from dd and not yet handed off
    disconnects,   \* how often the task called onDisconnect
    \* output channel and its reader
    recvd,         \* Messages the reader received from the output channel
    outClosed,     \* the output channel has been closed
    reading,       \* the reader still reads the output channel
    \* the caller's thread (one API call at a time)
    caller,        \* [pc, q]: where it stands inside Queue.Close / Exchange.Close
    notify,        \* the NotifyClose channel made by Queue.Close
    qcloseRet,     \* result of the last Queue.Close of each queue
    exRes,         \* the last Exchange.Close: [chan, conn, ret]
    \* NullAcknowledger
    na,            \* [acked, Acknowledgement] of each instance
    naLast,        \* the last call on each instance: [op, requeue, ret]
    naCalls,       \* number of calls on each instance
    \* what the API calls returned, and counts of what they did
    chanNil,       \* the Exchange was built without NewExchange: channel is nil
    lastErr,       \* the last error NewQueue / Publish / Purge returned: [op, err]
    subRet,        \* result of the last Subscribe of each queue
    subOk,         \* number of Subscribe calls of each queue that returned nil
    spawned,       \* number of consume goroutines started for each queue
    taken,         \* number of deliveries the tasks of each queue took from dd
    ackedTwice     \* a second Ack/Nack call on one delivery returned nil

brokerVars == <<chanOpen, connOpen, qos, declared, opts, bound, consumer, ready,
                unacked, nextTag, nPub, routed, nackRequeued>>
streamVars == <<dd, delivered, cancelled>>
taskVars == <<pc, held, disconnects>>
readerVars == <<recvd, outClosed, reading>>
callerVars == <<caller, notify, qcloseRet, exRes>>
naVars == <<na, naLast, naCalls>>
apiVars == <<chanNil, lastErr, subRet, subOk, spawned, taken, ackedTwice>>
vars == <<brokerVars, streamVars, taskVars, readerVars, callerVars, naVars,
          apiVars>>

NoDelivery == [tag |-> 0, q |-> "", body |-> 0]
Idle == [pc |-> "idle", q |-> ""]
NoQos == [count |-> 0, size |-> 0]
NoErr == [op |-> "none", err |-> "none"]

\* An Exchange nothing has been done with yet. One that NewExchange returned
\* (nil = FALSE) has a live connection and a live channel; one built as a
\* struct value (nil = TRUE) has neither.
ExchangeBuilt(nil) ==
    /\ chanOpen = ~nil
    /\ connOpen = ~nil
    /\ qos = NoQos
    /\ declared = {}
    /\ opts = [q \in Queues |-> NoQos]
    /\ bound = [q \in Queues |-> FALSE]
    /\ consumer = [q \in Queues |-> FALSE]
    /\ ready = [q \in Queues |-> <<>>]
    /\ unacked = {}
    /\ nextTag = 1
    /\ nPub = 0
    /\ routed = [q \in Queues |-> <<>>]
    /\ nackRequeued = FALSE
    /\ dd = [q \in Queues |-> <<>>]
    /\ delivered = [q \in Queues |-> <<>>]
    /\ cancelled = [q \in Queues |-> FALSE]
    /\ pc = [q \in Queues |-> "none"]
    /\ held = [q \in Queues |-> NoDelivery]
    /\ disconnects = [q \in Queues |-> 0]
    /\ recvd = [q \in Queues |-> <<>>]
    /\ outClosed = [q \in Queues |-> FALSE]
    /\ reading = [q \in Queues |-> TRUE]
    /\ caller = Idle
    /\ notify = "none"
    /\ qcloseRet = [q \in Queues |-> "none"]
    /\ exRes = [chan |-> "none", conn |-> "none", ret |-> "none"]
    /\ na = [a \in NullAcks |-> [acked |-> FALSE, Acknowledgement |-> Unacknowledged]]
    /\ naLast = [a \in NullAcks |-> [op |-> "none", requeue |-> FALSE, ret |-> "none"]]
    /\ naCalls = [a \in NullAcks |-> 0]
    /\ chanNil = nil
    /\ lastErr = NoErr
    /\ subRet = [q \in Queues |-> "none"]
    /\ subOk = [q \in Queues |-> 0]
    /\ spawned = [q \in Queues |-> 0]
    /\ taken = [q \in Queues |-> 0]
    /\ ackedTwice = FALSE

\* The state after NewExchange returned an Exchange: connection and channel
\* live, nothing declared, no NullAcknowledger used.
Init == ExchangeBuilt(FALSE)

\* An Exchange from NewExchange, or one built without it.
InitAny == \E nil \in BOOLEAN : ExchangeBuilt(nil)


(***************************************************************************)
(* Library and broker behaviour behind the wrapper's calls.                *)
(***************************************************************************)

\* The bodies of the deliveries in S, by ascending delivery tag.
RECURSIVE BodiesByTag(_)
BodiesByTag(S) ==
    IF S = {} THEN <<>>
    ELSE LET m == CHOOSE d \in S : \A e \in S : d.tag <= e.tag
         IN  <<m.body>> \o BodiesByTag(S \ {m})

\* The delivery channel dd of q reports closed (ok = false) to a receiver:
\* nothing is queued and the consumer was cancelled or the channel shut down.
StreamClosed(q) == dd[q] = <<>> /\ (cancelled[q] \/ ~chanOpen)

\* The channel's prefetch limit lets the broker send one more delivery
\* (every body of the model is one byte long).
PrefetchAllows ==
    /\ qos.count = 0 \/ Cardinality(unacked) < qos.count
    /\ qos.size = 0 \/ Cardinality(unacked) + 1 <= qos.size

\* The channel shuts down, gracefully (err = FALSE: Channel.Close) or not
\* (err = TRUE: channel exception, lost connection). Queued deliveries are
\* dropped and every delivery channel closes; the NotifyClose listener gets the
\* error, if any, and its channel is closed; the broker drops the consumers and
\* requeues what was not acknowledged.
Shutdown(err) ==
    /\ chanOpen' = FALSE
    /\ consumer' = [q \in Queues |-> FALSE]
    /\ dd' = [q \in Queues |-> <<>>]
    /\ notify' = IF notify = "registered"
                 THEN (IF err THEN "err" ELSE "closed")
                 ELSE notify
    /\ ready' = [q \in Queues |->
                    BodiesByTag({d \in unacked : d.q = q}) \o ready[q]]
    /\ unacked' = {}

\* The broker sends the next ready message of q to its consumer.
Deliver(q) ==
    /\ chanOpen /\ consumer[q]
    /\ ready[q] # <<>>
    /\ PrefetchAllows
    /\ nextTag <= MaxDeliveries
    /\ LET d == [tag |-> nextTag, q |-> q, body |-> Head(ready[q])]
       IN  /\ ready' = [ready EXCEPT ![q] = Tail(@)]
           /\ unacked' = unacked \cup {d}
           /\ dd' = [dd EXCEPT ![q] = Append(@, d)]
           /\ delivered' = [delivered EXCEPT ![q] = Append(@, d)]
    /\ nextTag' = nextTag + 1
    /\ UNCHANGED <<chanOpen, connOpen, qos, declared, opts, bound, consumer,
                   nPub, routed, nackRequeued, cancelled>>
    /\ UNCHANGED <<taskVars, readerVars, callerVars, naVars, apiVars>>

\* The connection to the broker is lost.
ConnectionLost ==
    /\ connOpen
    /\ connOpen' = FALSE
    /\ IF chanOpen THEN Shutdown(TRUE)
       ELSE UNCHANGED <<chanOpen, consumer, dd, notify, ready, unacked>>
    /\ UNCHANGED <<qos, declared, opts, bound, nextTag, nPub, routed,
                   nackRequeued, delivered, cancelled>>
    /\ UNCHANGED <<taskVars, readerVars, caller, qcloseRet, exRes, naVars, apiVars>>

\* The broker cancels the consumer of q (basic.cancel: the queue failed over
\* or was taken from the consumer) while the channel stays live. The library
\* closes the subscription's delivery channel once it is drained.
BrokerCancel(q) ==
    /\ chanOpen /\ consumer[q]
    /\ consumer' = [consumer EXCEPT ![q] = FALSE]
    /\ cancelled' = [cancelled EXCEPT ![q] = TRUE]
    /\ UNCHANGED <<chanOpen, connOpen, qos, declared, opts, bound, ready,
                   unacked, nextTag, nPub, routed, nackRequeued, dd, delivered>>
    /\ UNCHANGED <<taskVars, readerVars, callerVars, naVars, apiVars>>

(***************************************************************************)
(* Exchange and Queue construction, Publish, Subscribe.                    *)
(***************************************************************************)

\* Mutant of NewQueue: the prefetch options are never applied to the channel.
NewQueue_NoQos(q, count, size) ==
    /\ caller = Idle
    /\ ~chanNil
    /\ q \notin declared
    /\ chanOpen
    /\ declared' = declared \cup {q}
    /\ opts' = [opts EXCEPT ![q] = [count |-> count, size |-> size]]
    /\ UNCHANGED <<chanOpen, connOpen, qos, bound, consumer, ready, unacked,
                   nextTag, nPub, routed, nackRequeued>>
    /\ UNCHANGED <<streamVars, taskVars, readerVars, callerVars, naVars, apiVars>>

\* Mutant of NewQueue: Qos is called only when both options are positive.
NewQueue_QosBoth(q, count, size) ==
    /\ caller = Idle
    /\ ~chanNil
    /\ q \notin declared
    /\ chanOpen
    /\ declared' = declared \cup {q}
    /\ opts' = [opts EXCEPT ![q] = [count |-> count, size |-> size]]
    /\ qos' = IF count > 0 /\ size > 0
              THEN [count |-> count, size |-> size]
              ELSE qos
    /\ UNCHANGED <<chanOpen, connOpen, bound, consumer, ready, unacked,
                   nextTag, nPub, routed, nackRequeued>>
    /\ UNCHANGED <<streamVars, taskVars, readerVars, callerVars, naVars, apiVars>>

\* NewQueue(queueName, exchange, options): QueueDeclare, then Qos when
\* PrefetchCount or PrefetchSize is positive, returning a Queue. On a closed
\* channel QueueDeclare returns ErrClosed and NewQueue returns it and no Queue.
NewQueue(q, count, size) ==
    /\ caller = Idle
    /\ ~chanNil
    /\ q \notin declared
    /\ IF chanOpen
       THEN /\ declared' = declared \cup {q}
            /\ opts' = [opts EXCEPT ![q] = [count |-> count, size |-> size]]
            /\ qos' = IF count > 0 \/ size > 0
                      THEN [count |-> count, size |-> size]
                      ELSE qos
            /\ UNCHANGED lastErr
       ELSE /\ lastErr' = [op |-> "NewQueue", err |-> "ErrClosed"]
            /\ UNCHANGED <<declared, opts, qos>>
    /\ UNCHANGED <<chanOpen, connOpen, bound, consumer, ready, unacked,
                   nextTag, nPub, routed, nackRequeued>>
    /\ UNCHANGED <<streamVars, taskVars, readerVars, callerVars, naVars>>
    /\ UNCHANGED <<chanNil, subRet, subOk, spawned, taken, ackedTwice>>

\* Mutant of Publish: the message is handed to the channel whatever its state.
Publish_Unchecked(q) ==
    /\ caller = Idle
    /\ nPub < MaxMsgs
    /\ nPub' = nPub + 1
    /\ IF bound[q]
       THEN /\ ready' = [ready EXCEPT ![q] = Append(@, nPub + 1)]
            /\ routed' = [routed EXCEPT ![q] = Append(@, nPub + 1)]
       ELSE UNCHANGED <<ready, routed>>
    /\ UNCHANGED <<chanOpen, connOpen, qos, declared, opts, bound, consumer,
                   unacked, nextTag, nackRequeued>>
    /\ UNCHANGED <<streamVars, taskVars, readerVars, callerVars, naVars, apiVars>>

\* Exchange.Publish / PublishTransient with routing key q. A nil channel is
\* refused by publish itself; a closed channel makes Channel.Publish return
\* ErrClosed; otherwise body number nPub+1 is routed to the queue bound with
\* that key.
Publish(q) ==
    /\ caller = Idle
    /\ IF chanNil
       THEN /\ lastErr' = [op |-> "Publish", err |-> "channel is nil"]
            /\ UNCHANGED <<nPub, ready, routed>>
       ELSE IF ~chanOpen
       THEN /\ lastErr' = [op |-> "Publish", err |-> "ErrClosed"]
            /\ UNCHANGED <<nPub, ready, routed>>
       ELSE /\ nPub < MaxMsgs
            /\ nPub' = nPub + 1
            /\ IF bound[q]
               THEN /\ ready' = [ready EXCEPT ![q] = Append(@, nPub + 1)]
                    /\ routed' = [routed EXCEPT ![q] = Append(@, nPub + 1)]
               ELSE UNCHANGED <<ready, routed>>
            /\ UNCHANGED lastErr
    /\ UNCHANGED <<chanOpen, connOpen, qos, declared, opts, bound, consumer,
                   unacked, nextTag, nackRequeued>>
    /\ UNCHANGED <<streamVars, taskVars, readerVars, callerVars, naVars>>
    /\ UNCHANGED <<chanNil, subRet, subOk, spawned, taken, ackedTwice>>

\* Queue.Purge: QueuePurge removes the messages waiting in the queue (not the
\* unacknowledged ones); on a closed channel it returns ErrClosed.
Purge(q) ==
    /\ caller = Idle
    /\ q \in declared
    /\ IF chanOpen
       THEN /\ ready' = [ready EXCEPT ![q] = <<>>]
            /\ UNCHANGED lastErr
       ELSE /\ lastErr' = [op |-> "Purge", err |-> "ErrClosed"]
            /\ UNCHANGED ready
    /\ UNCHANGED <<chanOpen, connOpen, qos, declared, opts, bound, consumer,
                   unacked, nextTag, nPub, routed, nackRequeued>>
    /\ UNCHANGED <<streamVars, taskVars, readerVars, callerVars, naVars>>
    /\ UNCHANGED <<chanNil, subRet, subOk, spawned, taken, ackedTwice>>

\* Mutant of Subscribe: a bind error is swallowed and nil is returned.
Subscribe_SwallowsBindError(q) ==
    /\ caller = Idle
    /\ q \in declared
    /\ pc[q] \in {"none", "done"}
    /\ spawned[q] < MaxSubs
    /\ IF chanOpen
       THEN /\ bound' = [bound EXCEPT ![q] = TRUE]
            /\ caller' = [pc |-> "s_consume", q |-> q]
            /\ UNCHANGED <<subRet, subOk>>
       ELSE /\ subRet' = [subRet EXCEPT ![q] = "nil"]
            /\ subOk' = [subOk EXCEPT ![q] = @ + 1]
            /\ UNCHANGED <<bound, caller>>
    /\ UNCHANGED <<chanOpen, connOpen, qos, declared, opts, consumer, ready,
                   unacked, nextTag, nPub, routed, nackRequeued>>
    /\ UNCHANGED <<streamVars, taskVars, readerVars, notify, qcloseRet, exRes,
                   naVars>>
    /\ UNCHANGED <<chanNil, lastErr, spawned, taken, ackedTwice>>

\* Queue.Subscribe(messages), first statement: q.bind(). A bind error (the
\* channel is closed) is returned at once. The caller's scenario: a Queue is
\* subscribed when it has no consume task running.
Subscribe(q) ==
    /\ caller = Idle
    /\ q \in declared
    /\ pc[q] \in {"none", "done"}
    /\ spawned[q] < MaxSubs
    /\ IF chanOpen
       THEN /\ bound' = [bound EXCEPT ![q] = TRUE]
            /\ caller' = [pc |-> "s_consume", q |-> q]
            /\ UNCHANGED subRet
       ELSE /\ subRet' = [subRet EXCEPT ![q] = "err"]
            /\ UNCHANGED <<bound, caller>>
    /\ UNCHANGED <<chanOpen, connOpen, qos, declared, opts, consumer, ready,
                   unacked, nextTag, nPub, routed, nackRequeued>>
    /\ UNCHANGED <<streamVars, taskVars, readerVars, notify, qcloseRet, exRes,
                   naVars>>
    /\ UNCHANGED <<chanNil, lastErr, subOk, spawned, taken, ackedTwice>>

\* Mutant of SubscribeConsume: the goroutine is started before the error of
\* Consume is looked at.
SubscribeConsume_SpawnsFirst ==
    /\ caller.pc = "s_consume"
    /\ LET q == caller.q
       IN  /\ pc' = [pc EXCEPT ![q] = "recv"]
           /\ spawned' = [spawned EXCEPT ![q] = @ + 1]
           /\ IF chanOpen
              THEN /\ consumer' = [consumer EXCEPT ![q] = TRUE]
                   /\ cancelled' = [cancelled EXCEPT ![q] = FALSE]
                   /\ subOk' = [subOk EXCEPT ![q] = @ + 1]
                   /\ subRet' = [subRet EXCEPT ![q] = "nil"]
              ELSE /\ subRet' = [subRet EXCEPT ![q] = "err"]
                   /\ UNCHANGED <<consumer, cancelled, subOk>>
    /\ caller' = Idle
    /\ UNCHANGED <<chanOpen, connOpen, qos, declared, opts, bound, ready,
                   unacked, nextTag, nPub, routed, nackRequeued>>
    /\ UNCHANGED <<dd, delivered, held, disconnects, readerVars, notify,
                   qcloseRet, exRes, naVars>>
    /\ UNCHANGED <<chanNil, lastErr, taken, ackedTwice>>

\* Queue.Subscribe, after the bind: Channel.Consume (autoAck false, consumer
\* name = queue name). An error is returned at once; otherwise the consume
\* goroutine is started on the new delivery channel and nil is returned.
SubscribeConsume ==
    /\ caller.pc = "s_consume"
    /\ LET q == caller.q
       IN  IF chanOpen
           THEN /\ consumer' = [consumer EXCEPT ![q] = TRUE]
                /\ cancelled' = [cancelled EXCEPT ![q] = FALSE]
                /\ pc' = [pc EXCEPT ![q] = "recv"]
                /\ spawned' = [spawned EXCEPT ![q] = @ + 1]
                /\ subOk' = [subOk EXCEPT ![q] = @ + 1]
                /\ subRet' = [subRet EXCEPT ![q] = "nil"]
           ELSE /\ subRet' = [subRet EXCEPT ![q] = "err"]
                /\ UNCHANGED <<consumer, cancelled, pc, spawned, subOk>>
    /\ caller' = Idle
    /\ UNCHANGED <<chanOpen, connOpen, qos, declared, opts, bound, ready,
                   unacked, nextTag, nPub, routed, nackRequeued>>
    /\ UNCHANGED <<dd, delivered, held, disconnects, readerVars, notify,
                   qcloseRet, exRes, naVars>>
    /\ UNCHANGED <<chanNil, lastErr, taken, ackedTwice>>

(***************************************************************************)
(* The consume goroutine of Subscribe.                                     *)
(***************************************************************************)

\* Mutant of TaskRecv: the task takes the newest queued delivery, not the oldest.
TaskRecv_Newest(q) ==
    /\ pc[q] = "recv"
    /\ dd[q] # <<>>
    /\ held' = [held EXCEPT ![q] = dd[q][Len(dd[q])]]
    /\ dd' = [dd EXCEPT ![q] = SubSeq(@, 1, Len(@) - 1)]
    /\ pc' = [pc EXCEPT ![q] = "send"]
    /\ taken' = [taken EXCEPT ![q] = @ + 1]
    /\ UNCHANGED <<brokerVars, delivered, cancelled, disconnects, readerVars,
                   callerVars, naVars>>
    /\ UNCHANGED <<chanNil, lastErr, subRet, subOk, spawned, ackedTwice>>

\* Mutant of TaskRecv: the task takes the next delivery without waiting for
\* the send of the previous Message to complete.
TaskRecv_Eager(q) ==
    /\ pc[q] \in {"recv", "send"}
    /\ dd[q] # <<>>
    /\ held' = [held EXCEPT ![q] = Head(dd[q])]
    /\ dd' = [dd EXCEPT ![q] = Tail(@)]
    /\ pc' = [pc EXCEPT ![q] = "send"]
    /\ taken' = [taken EXCEPT ![q] = @ + 1]
    /\ UNCHANGED <<brokerVars, delivered, cancelled, disconnects, readerVars,
                   callerVars, naVars>>
    /\ UNCHANGED <<chanNil, lastErr, subRet, subOk, spawned, ackedTwice>>

\* case d, ok := <-dd with ok: the task takes the next delivery and builds
\* the Message; it then stands at  messages <- m.
TaskRecv(q) ==
    /\ pc[q] = "recv"
    /\ dd[q] # <<>>
    /\ held' = [held EXCEPT ![q] = Head(dd[q])]
    /\ dd' = [dd EXCEPT ![q] = Tail(@)]
    /\ pc' = [pc EXCEPT ![q] = "send"]
    /\ taken' = [taken EXCEPT ![q] = @ + 1]
    /\ UNCHANGED <<brokerVars, delivered, cancelled, disconnects, readerVars,
                   callerVars, naVars>>
    /\ UNCHANGED <<chanNil, lastErr, subRet, subOk, spawned, ackedTwice>>

\* Mutant of TaskDisconnect: the task closes the output channel as it ends.
TaskDisconnect_ClosesOutput(q) ==
    /\ pc[q] = "recv"
    /\ StreamClosed(q)
    /\ disconnects' = [disconnects EXCEPT ![q] = @ + 1]
    /\ pc' = [pc EXCEPT ![q] = "done"]
    /\ outClosed' = [outClosed EXCEPT ![q] = TRUE]
    /\ UNCHANGED <<brokerVars, streamVars, held, recvd, reading, callerVars, naVars, apiVars>>

\* Mutant of TaskDisconnect: open is not set to false, so the loop goes on
\* after the callback.
TaskDisconnect_LoopsOn(q) ==
    /\ pc[q] = "recv"
    /\ StreamClosed(q)
    /\ disconnects' = [disconnects EXCEPT ![q] = @ + 1]
    /\ UNCHANGED <<brokerVars, streamVars, pc, held, readerVars, callerVars, naVars, apiVars>>

\* case d, ok := <-dd with !ok: onDisconnect is called, open = false, the
\* loop and the goroutine end. (The callback is one that returns, as the
\* options of amqptest give; DefaultOnDisconnect panics instead.)
TaskDisconnect(q) ==
    /\ pc[q] = "recv"
    /\ StreamClosed(q)
    /\ disconnects' = [disconnects EXCEPT ![q] = @ + 1]
    /\ pc' = [pc EXCEPT ![q] = "done"]
    /\ UNCHANGED <<brokerVars, streamVars, held, readerVars, callerVars, naVars, apiVars>>

\* messages <- m completes: the output channel is unbuffered, so the send
\* completes when the reader receives the Message.
TaskSend(q) ==
    /\ pc[q] = "send"
    /\ reading[q]
    /\ ~outClosed[q]
    /\ recvd' = [recvd EXCEPT ![q] = Append(@, held[q])]
    /\ held' = [held EXCEPT ![q] = NoDelivery]
    /\ pc' = [pc EXCEPT ![q] = "recv"]
    /\ UNCHANGED <<brokerVars, streamVars, disconnects, outClosed, reading,
                   callerVars, naVars, apiVars>>

(***************************************************************************)
(* The reader of the output channel.                                       *)
(***************************************************************************)

\* The reader stops receiving from the output channel (it never closes it).
ReaderStop(q) ==
    /\ pc[q] # "none"
    /\ reading[q]
    /\ reading' = [reading EXCEPT ![q] = FALSE]
    /\ UNCHANGED <<brokerVars, streamVars, taskVars, recvd, outClosed,
                   callerVars, naVars, apiVars>>

\* The deliveries the reader holds as Messages.
Received == UNION {{recvd[q][i] : i \in 1..Len(recvd[q])} : q \in Queues}

\* Mutant of Ack: the frame is sent with multiple = true, which acknowledges
\* every outstanding delivery up to the tag.
Ack_Multiple(d) ==
    /\ d \in Received
    /\ chanOpen
    /\ IF d \in unacked
       THEN /\ unacked' = {e \in unacked : e.tag > d.tag}
            /\ UNCHANGED <<chanOpen, consumer, dd, notify, ready, ackedTwice>>
       ELSE /\ Shutdown(TRUE)
            /\ ackedTwice' = TRUE
    /\ UNCHANGED <<connOpen, qos, declared, opts, bound, nextTag, nPub, routed,
                   nackRequeued, delivered, cancelled>>
    /\ UNCHANGED <<taskVars, readerVars, caller, qcloseRet, exRes, naVars>>
    /\ UNCHANGED <<chanNil, lastErr, subRet, subOk, spawned, taken>>

\* acknowledger.Ack on a received Message while the channel is live:
\* Channel.Ack(deliveryTag, false) sends the frame and returns nil. The
\* broker acknowledges that delivery tag alone (multiple = false). A tag that
\* is not outstanding makes the broker close the channel (PRECONDITION_FAILED);
\* the connection stays.
Ack(d) ==
    /\ d \in Received
    /\ chanOpen
    /\ IF d \in unacked
       THEN /\ unacked' = unacked \ {d}
            /\ UNCHANGED <<chanOpen, consumer, dd, notify, ready, ackedTwice>>
       ELSE /\ Shutdown(TRUE)
            /\ ackedTwice' = TRUE
    /\ UNCHANGED <<connOpen, qos, declared, opts, bound, nextTag, nPub, routed,
                   nackRequeued, delivered, cancelled>>
    /\ UNCHANGED <<taskVars, readerVars, caller, qcloseRet, exRes, naVars>>
    /\ UNCHANGED <<chanNil, lastErr, subRet, subOk, spawned, taken>>

\* acknowledger.Nack(requeue) on a received Message while the channel is
\* live: Channel.Nack(deliveryTag, false, requeue) sends the frame and returns
\* nil. That delivery alone is rejected, and put back first in its queue when
\* requeue is set.
Nack(d, requeue) ==
    /\ d \in Received
    /\ chanOpen
    /\ IF d \in unacked
       THEN /\ unacked' = unacked \ {d}
            /\ ready' = IF requeue
                        THEN [ready EXCEPT ![d.q] = <<d.body>> \o @]
                        ELSE ready
            /\ nackRequeued' = (nackRequeued \/ requeue)
            /\ UNCHANGED <<chanOpen, consumer, dd, notify, ackedTwice>>
       ELSE /\ Shutdown(TRUE)
            /\ ackedTwice' = TRUE
            /\ UNCHANGED nackRequeued
    /\ UNCHANGED <<connOpen, qos, declared, opts, bound, nextTag, nPub, routed,
                   delivered, cancelled>>
    /\ UNCHANGED <<taskVars, readerVars, caller, qcloseRet, exRes, naVars>>
    /\ UNCHANGED <<chanNil, lastErr, subRet, subOk, spawned, taken>>

(***************************************************************************)
(* Exchange.Close and Queue.Close, run by the caller's thread.             *)
(***************************************************************************)

\* Where Exchange.Close returns to: the caller, or Queue.Close's wait.
ReturnSite == IF caller.q = "" THEN Idle ELSE [pc |-> "q_wait", q |-> caller.q]

\* Mutant of CloseChannel: after a failed channel close the connection close
\* is attempted all the same.
CloseChannel_GoesOn ==
    /\ caller' = [pc |-> "e_conn", q |-> caller.q]
    /\ IF chanOpen
       THEN /\ Shutdown(FALSE)
            /\ exRes' = [chan |-> "ok", conn |-> "none", ret |-> "none"]
       ELSE /\ exRes' = [chan |-> "err", conn |-> "none", ret |-> "err"]
            /\ UNCHANGED <<chanOpen, consumer, dd, notify, ready, unacked>>

\* Exchange.Close, first statement: e.channel.Close(). An error is returned
\* at once; otherwise the call goes on to the connection.
CloseChannel ==
    IF chanOpen
    THEN /\ Shutdown(FALSE)
         /\ exRes' = [chan |-> "ok", conn |-> "none", ret |-> "none"]
         /\ caller' = [pc |-> "e_conn", q |-> caller.q]
    ELSE /\ exRes' = [chan |-> "err", conn |-> "none", ret |-> "err"]
         /\ caller' = ReturnSite
         /\ UNCHANGED <<chanOpen, consumer, dd, notify, ready, unacked>>

\* Exchange.Close called by the caller.
ExchangeClose ==
    /\ caller = Idle
    /\ ~chanNil
    /\ CloseChannel
    /\ UNCHANGED <<connOpen, qos, declared, opts, bound, nextTag, nPub, routed,
                   nackRequeued, delivered, cancelled>>
    /\ UNCHANGED <<taskVars, readerVars, qcloseRet, naVars, apiVars>>

\* Exchange.Close, second statement: return e.connection.Close().
ExchangeCloseConn ==
    /\ caller.pc = "e_conn"
    /\ IF connOpen
       THEN /\ connOpen' = FALSE
            /\ exRes' = [exRes EXCEPT !.conn = "ok", !.ret = "nil"]
       ELSE /\ exRes' = [exRes EXCEPT !.conn = "err", !.ret = "err"]
            /\ UNCHANGED connOpen
    /\ caller' = ReturnSite
    /\ UNCHANGED <<chanOpen, qos, declared, opts, bound, consumer, ready,
                   unacked, nextTag, nPub, routed, nackRequeued>>
    /\ UNCHANGED <<streamVars, taskVars, readerVars, notify, qcloseRet, naVars, apiVars>>

\* Mutant of QueueCloseCancel: the error of Cancel is not looked at and the
\* call goes on.
QueueCloseCancel_GoesOn(q) ==
    /\ caller = Idle
    /\ q \in declared
    /\ caller' = [pc |-> "q_notify", q |-> q]
    /\ IF chanOpen
       THEN /\ consumer' = [consumer EXCEPT ![q] = FALSE]
            /\ cancelled' = [cancelled EXCEPT ![q] = (pc[q] # "none")]
       ELSE UNCHANGED <<consumer, cancelled>>
    /\ UNCHANGED <<chanOpen, connOpen, qos, declared, opts, bound, ready,
                   unacked, nextTag, nPub, routed, nackRequeued, dd, delivered>>
    /\ UNCHANGED <<taskVars, readerVars, notify, qcloseRet, exRes, naVars, apiVars>>

\* Queue.Close, first statement: channel.Cancel(consumerName, false). An
\* error is returned at once. Otherwise the broker has confirmed the cancel:
\* it sends no more deliveries, and the delivery channel closes once drained.
QueueCloseCancel(q) ==
    /\ caller = Idle
    /\ q \in declared
    /\ IF chanOpen
       THEN /\ consumer' = [consumer EXCEPT ![q] = FALSE]
            /\ cancelled' = [cancelled EXCEPT ![q] = (pc[q] # "none")]
            /\ caller' = [pc |-> "q_notify", q |-> q]
            /\ UNCHANGED qcloseRet
       ELSE /\ qcloseRet' = [qcloseRet EXCEPT ![q] = "err"]
            /\ UNCHANGED <<consumer, cancelled, caller>>
    /\ UNCHANGED <<chanOpen, connOpen, qos, declared, opts, bound, ready,
                   unacked, nextTag, nPub, routed, nackRequeued, dd, delivered>>
    /\ UNCHANGED <<taskVars, readerVars, notify, exRes, naVars, apiVars>>

\* Queue.Close: ch := channel.NotifyClose(make(chan *amqp.Error)). On a
\* channel that is already closed the library closes ch at once.
QueueCloseNotify ==
    /\ caller.pc = "q_notify"
    /\ notify' = IF chanOpen THEN "registered" ELSE "closed"
    /\ caller' = [caller EXCEPT !.pc = "q_exch"]
    /\ UNCHANGED <<brokerVars, streamVars, taskVars, readerVars, qcloseRet,
                   exRes, naVars, apiVars>>

\* Queue.Close: q.exchange.Close(), whose result is dropped.
QueueCloseExchange ==
    /\ caller.pc = "q_exch"
    /\ CloseChannel
    /\ UNCHANGED <<connOpen, qos, declared, opts, bound, nextTag, nPub, routed,
                   nackRequeued, delivered, cancelled>>
    /\ UNCHANGED <<taskVars, readerVars, qcloseRet, naVars, apiVars>>

\* Mutant of QueueCloseWait: what is received from ch is not looked at.
QueueCloseWait_DropsError ==
    /\ caller.pc = "q_wait"
    /\ notify \in {"err", "closed"}
    /\ qcloseRet' = [qcloseRet EXCEPT ![caller.q] = "nil"]
    /\ notify' = "none"
    /\ caller' = Idle
    /\ UNCHANGED <<brokerVars, streamVars, taskVars, readerVars, exRes, naVars, apiVars>>

\* Queue.Close: err := <-ch; the error is returned if there is one, nil when
\* ch was closed without one.
QueueCloseWait ==
    /\ caller.pc = "q_wait"
    /\ notify \in {"err", "closed"}
    /\ qcloseRet' = [qcloseRet EXCEPT ![caller.q] =
                        IF notify = "err" THEN "err" ELSE "nil"]
    /\ notify' = "none"
    /\ caller' = Idle
    /\ UNCHANGED <<brokerVars, streamVars, taskVars, readerVars, exRes, naVars, apiVars>>

(***************************************************************************)
(* NullAcknowledger.                                                       *)
(***************************************************************************)

\* Mutant of NullAck: Ack does not look at the acked flag.
NullAck_Unguarded(a) ==
    /\ naCalls[a] < MaxAckCalls
    /\ naCalls' = [naCalls EXCEPT ![a] = @ + 1]
    /\ na' = [na EXCEPT ![a] = [acked |-> TRUE, Acknowledgement |-> Acked]]
    /\ naLast' = [naLast EXCEPT ![a] =
                    [op |-> "Ack", requeue |-> FALSE, ret |-> "nil"]]
    /\ UNCHANGED <<brokerVars, streamVars, taskVars, readerVars, callerVars, apiVars>>

\* NullAcknowledger.Ack
NullAck(a) ==
    /\ naCalls[a] < MaxAckCalls
    /\ naCalls' = [naCalls EXCEPT ![a] = @ + 1]
    /\ IF na[a].acked
       THEN /\ naLast' = [naLast EXCEPT ![a] =
                            [op |-> "Ack", requeue |-> FALSE, ret |-> "ErrAlreadyAcked"]]
            /\ UNCHANGED na
       ELSE /\ na' = [na EXCEPT ![a] = [acked |-> TRUE, Acknowledgement |-> Acked]]
            /\ naLast' = [naLast EXCEPT ![a] =
                            [op |-> "Ack", requeue |-> FALSE, ret |-> "nil"]]
    /\ UNCHANGED <<brokerVars, streamVars, taskVars, readerVars, callerVars, apiVars>>

\* Mutant of NullNack: the two branches on requeue are exchanged.
NullNack_Swapped(a, requeue) ==
    /\ naCalls[a] < MaxAckCalls
    /\ naCalls' = [naCalls EXCEPT ![a] = @ + 1]
    /\ IF na[a].acked
       THEN /\ naLast' = [naLast EXCEPT ![a] =
                            [op |-> "Nack", requeue |-> requeue, ret |-> "ErrAlreadyAcked"]]
            /\ UNCHANGED na
       ELSE /\ na' = [na EXCEPT ![a] =
                        [acked |-> TRUE,
                         Acknowledgement |-> IF requeue THEN Dropped ELSE Requeued]]
            /\ naLast' = [naLast EXCEPT ![a] =
                            [op |-> "Nack", requeue |-> requeue, ret |-> "nil"]]
    /\ UNCHANGED <<brokerVars, streamVars, taskVars, readerVars, callerVars, apiVars>>

\* NullAcknowledger.Nack(requeue)
NullNack(a, requeue) ==
    /\ naCalls[a] < MaxAckCalls
    /\ naCalls' = [naCalls EXCEPT ![a] = @ + 1]
    /\ IF na[a].acked
       THEN /\ naLast' = [naLast EXCEPT ![a] =
                            [op |-> "Nack", requeue |-> requeue, ret |-> "ErrAlreadyAcked"]]
            /\ UNCHANGED na
       ELSE /\ na' = [na EXCEPT ![a] =
                        [acked |-> TRUE,
                         Acknowledgement |-> IF requeue THEN Requeued ELSE Dropped]]
            /\ naLast' = [naLast EXCEPT ![a] =
                            [op |-> "Nack", requeue |-> requeue, ret |-> "nil"]]
    /\ UNCHANGED <<brokerVars, streamVars, taskVars, readerVars, callerVars, apiVars>>

(***************************************************************************)
(* Specifications.                                                         *)
(***************************************************************************)

\* One Queue on the Exchange, one consumer, one reader.
OneQueue == {"q1"}

Next ==
    \/ \E q \in OneQueue, c \in 0..MaxPrefetch, s \in 0..MaxPrefetch : NewQueue(q, c, s)
    \/ \E q \in OneQueue : chanOpen /\ Publish(q)
    \/ \E q \in OneQueue : chanOpen /\ pc[q] = "none" /\ Subscribe(q)
    \/ SubscribeConsume
    \/ \E q \in OneQueue : Deliver(q)
    \/ \E q \in OneQueue : TaskRecv(q)
    \/ \E q \in OneQueue : TaskDisconnect(q)
    \/ \E q \in OneQueue : TaskSend(q)
    \/ \E q \in OneQueue : ReaderStop(q)
    \/ \E d \in Received : Ack(d)
    \/ \E d \in Received, r \in BOOLEAN : Nack(d, r)
    \/ ConnectionLost
    \/ ExchangeClose
    \/ ExchangeCloseConn
    \/ \E q \in OneQueue : QueueCloseCancel(q)
    \/ QueueCloseNotify
    \/ QueueCloseExchange
    \/ QueueCloseWait

Spec == Init /\ [][Next]_vars

\* Calls on NullAcknowledgers alone.
NextNull ==
    \/ \E a \in NullAcks : NullAck(a)
    \/ \E a \in NullAcks, r \in BOOLEAN : NullNack(a, r)

SpecNull == Init /\ [][NextNull]_vars

\* One Queue built without prefetch options, and a caller that makes any
\* call at any time, also on a closed Exchange, purges, and subscribes again
\* once the consume task has ended; the broker may cancel the consumer. The
\* reader reads on and acknowledges nothing.
NextApi ==
    \/ \E q \in OneQueue : NewQueue(q, 0, 0)
    \/ \E q \in OneQueue : Publish(q)
    \/ \E q \in OneQueue : Purge(q)
    \/ \E q \in OneQueue : Subscribe(q)
    \/ SubscribeConsume
    \/ \E q \in OneQueue : Deliver(q)
    \/ \E q \in OneQueue : BrokerCancel(q)
    \/ \E q \in OneQueue : TaskRecv(q)
    \/ \E q \in OneQueue : TaskDisconnect(q)
    \/ \E q \in OneQueue : TaskSend(q)
    \/ ConnectionLost
    \/ ExchangeClose
    \/ ExchangeCloseConn
    \/ \E q \in OneQueue : QueueCloseCancel(q)
    \/ QueueCloseNotify
    \/ QueueCloseExchange
    \/ QueueCloseWait

SpecApi == InitAny /\ [][NextApi]_vars

\* Two Queues built without prefetch options on the one Exchange, each
\* subscribed once on the live channel, each with its own reader; readers may
\* acknowledge and may stop reading.
NextTwo ==
    \/ \E q \in Queues : NewQueue(q, 0, 0)
    \/ \E q \in Queues : chanOpen /\ Publish(q)
    \/ \E q \in Queues : chanOpen /\ pc[q] = "none" /\ Subscribe(q)
    \/ SubscribeConsume
    \/ \E q \in Queues : Deliver(q)
    \/ \E q \in Queues : TaskRecv(q)
    \/ \E q \in Queues : TaskDisconnect(q)
    \/ \E q \in Queues : TaskSend(q)
    \/ \E q \in Queues : ReaderStop(q)
    \/ \E d \in Received : Ack(d)
    \/ ConnectionLost
    \/ \E q \in Queues : QueueCloseCancel(q)
    \/ QueueCloseNotify
    \/ QueueCloseExchange
    \/ ExchangeCloseConn
    \/ QueueCloseWait

SpecTwo == Init /\ [][NextTwo]_vars

\* Queues built one after the other on the one Exchange, with any prefetch
\* options (nil options are the default ones: both values zero), until the
\* connection is lost.
NextQos ==
    \/ \E q \in Queues, c \in 0..MaxPrefetch, s \in 0..MaxPrefetch : NewQueue(q, c, s)
    \/ ConnectionLost

SpecQos == Init /\ [][NextQos]_vars

\* The scheduler runs every goroutine that can take a step: the consume
\* task, the library and the caller inside a Close. A reader that still reads
\* receives what is offered; nothing makes a reader go on reading, a publisher
\* publish or the broker deliver.
FairSpec ==
    /\ Spec
    /\ \A q \in OneQueue : WF_vars(TaskRecv(q))
    /\ \A q \in OneQueue : WF_vars(TaskDisconnect(q))
    /\ \A q \in OneQueue : WF_vars(TaskSend(q))
    /\ WF_vars(SubscribeConsume)
    /\ WF_vars(ExchangeCloseConn)
    /\ WF_vars(QueueCloseNotify)
    /\ WF_vars(QueueCloseExchange)
    /\ WF_vars(QueueCloseWait)

\* One Queue built without prefetch options, subscribed once, read by a
\* reader that may acknowledge and may stop reading, and closed.
NextClose ==
    \/ \E q \in OneQueue : NewQueue(q, 0, 0)
    \/ \E q \in OneQueue : chanOpen /\ Publish(q)
    \/ \E q \in OneQueue : chanOpen /\ pc[q] = "none" /\ Subscribe(q)
    \/ SubscribeConsume
    \/ \E q \in OneQueue : Deliver(q)
    \/ \E q \in OneQueue : TaskRecv(q)
    \/ \E q \in OneQueue : TaskDisconnect(q)
    \/ \E q \in OneQueue : TaskSend(q)
    \/ \E q \in OneQueue : ReaderStop(q)
    \/ \E d \in Received : Ack(d)
    \/ ConnectionLost
    \/ \E q \in OneQueue : QueueCloseCancel(q)
    \/ QueueCloseNotify
    \/ QueueCloseExchange
    \/ ExchangeCloseConn
    \/ QueueCloseWait

\* The same scheduling as in FairSpec.
FairClose ==
    /\ Init /\ [][NextClose]_vars
    /\ \A q \in OneQueue : WF_vars(TaskRecv(q))
    /\ \A q \in OneQueue : WF_vars(TaskDisconnect(q))
    /\ \A q \in OneQueue : WF_vars(TaskSend(q))
    /\ WF_vars(SubscribeConsume)
    /\ WF_vars(ExchangeCloseConn)
    /\ WF_vars(QueueCloseNotify)
    /\ WF_vars(QueueCloseExchange)
    /\ WF_vars(QueueCloseWait)

(***************************************************************************)
(* Properties.                                                             *)
(***************************************************************************)

IsPrefix(s, t) == Len(s) <= Len(t) /\ \A i \in 1..Len(s) : s[i] = t[i]
Bodies(s) == [i \in 1..Len(s) |-> s[i].body]
Range(s) == {s[i] : i \in 1..Len(s)}

\* C1: once Queue.Close has returned nil, no further Message is received from
\* the output channel of that Queue.
C1_NoPushAfterClose ==
    [][\A q \in Queues : qcloseRet[q] = "nil" => recvd'[q] = recvd[q]]_vars

\* C2: what the reader has received from the output channel is a prefix of
\* what the broker placed on the delivery stream, and (no delivery having been
\* requeued by a Nack) the bodies placed on the stream are a prefix of the
\* bodies published to the queue: nothing skipped, duplicated or reordered.
C2_PrefixOrder ==
    \A q \in Queues :
        /\ IsPrefix(recvd[q], delivered[q])
        /\ ~nackRequeued => IsPrefix(Bodies(delivered[q]), routed[q])

\* C2 witness: at least two published messages, all received in publish order.
C2_Witness ==
    \E q \in Queues :
        /\ Len(routed[q]) >= 2
        /\ Bodies(recvd[q]) = routed[q]

\* C3: whenever the delivery stream of a subscription closes, the consume
\* task calls onDisconnect exactly once and terminates.
C3_DisconnectOnce ==
    \A q \in OneQueue :
        /\ [](disconnects[q] <= 1)
        /\ (pc[q] # "none" /\ (cancelled[q] \/ ~chanOpen))
               ~> (pc[q] = "done" /\ disconnects[q] = 1)

\* C4: after a Queue.Close on a subscribed Queue (stated for the calls
\* that ran to the end and returned nil), the consume task eventually
\* terminates.
C4_TaskTerminates ==
    \A q \in OneQueue :
        (pc[q] # "none" /\ qcloseRet[q] = "nil") ~> (pc[q] = "done")

\* C5: the output channel is never closed, and everything received from it is
\* a Message built from a delivery the broker placed on the stream.
C5_OutputUntouched ==
    \A q \in Queues :
        /\ ~outClosed[q]
        /\ Range(recvd[q]) \subseteq Range(delivered[q])

\* C5 witness: the stream ended after a Queue.Close, the callback ran, and the
\* reader had received a Message.
C5_Witness ==
    \E q \in Queues :
        /\ pc[q] = "done" /\ disconnects[q] = 1
        /\ qcloseRet[q] = "nil"
        /\ recvd[q] # <<>>

\* C6: the first call on a NullAcknowledger, if it is Ack, returns nil and
\* records Acked; every call after the first returns ErrAlreadyAcked and
\* leaves the acked flag and the recorded Acknowledgement as they were.
C6_AckOnce ==
    [][\A a \in NullAcks :
          naCalls'[a] # naCalls[a] =>
              IF naCalls[a] >= 1
              THEN na'[a] = na[a] /\ naLast'[a].ret = "ErrAlreadyAcked"
              ELSE naLast'[a].op = "Ack" =>
                       /\ na'[a] = [acked |-> TRUE, Acknowledgement |-> Acked]
                       /\ naLast'[a].ret = "nil"]_vars

\* C6 witness: an Ack recorded Acked and a later Nack was refused.
C6_Witness ==
    \E a \in NullAcks :
        /\ naCalls[a] >= 2
        /\ na[a].Acknowledgement = Acked
        /\ naLast[a] = [op |-> "Nack", requeue |-> TRUE, ret |-> "ErrAlreadyAcked"]

\* C7: a fresh NullAcknowledger is Unacknowledged; a first Nack(true) records
\* Requeued, a first Nack(false) records Dropped; and the acked flag is false
\* exactly when the recorded Acknowledgement is Unacknowledged.
C7_NackRecords ==
    \A a \in NullAcks :
        /\ naCalls[a] = 0 =>
               na[a] = [acked |-> FALSE, Acknowledgement |-> Unacknowledged]
        /\ (naCalls[a] = 1 /\ naLast[a].op = "Nack") =>
               na[a].Acknowledgement = IF naLast[a].requeue THEN Requeued ELSE Dropped
        /\ ~na[a].acked <=> na[a].Acknowledgement = Unacknowledged

\* C7 witness: one instance requeued, the other dropped, each by its first call.
C7_Witness ==
    /\ naCalls["a1"] = 1 /\ na["a1"].Acknowledgement = Requeued
    /\ naCalls["a2"] = 1 /\ na["a2"].Acknowledgement = Dropped

\* Deliveries of q the broker holds as delivered and not acknowledged.
Outstanding(q) == {d \in unacked : d.q = q}

\* Deliveries of q on the client: queued on the stream, held by the consume
\* task, or received by the reader.
OnClient(q) ==
    Range(dd[q]) \cup Range(recvd[q])
        \cup (IF pc[q] = "send" THEN {held[q]} ELSE {})

\* The broker has a message for the consumer of q and the prefetch limit
\* keeps it from sending it.
Stalled(q) == chanOpen /\ consumer[q] /\ ready[q] # <<>> /\ ~PrefetchAllows

\* C8: for a subscribed Queue built with PrefetchCount = K > 0, the deliveries
\* outstanding (all of them on the stream, with the task or with the reader)
\* never number more than K, and (PrefetchSize being 0) number exactly K when
\* delivery stalls.
C8_Prefetch ==
    \A q \in OneQueue :
        (opts[q].count > 0 /\ pc[q] # "none") =>
            /\ Outstanding(q) \subseteq OnClient(q)
            /\ Cardinality(Outstanding(q)) <= opts[q].count
            /\ (opts[q].size = 0 /\ Stalled(q)) =>
                   Cardinality(Outstanding(q)) = opts[q].count

\* C8 witness: K = 2, three messages published, none acknowledged, delivery
\* stalled with two outstanding.
C8_Witness ==
    \E q \in OneQueue :
        /\ opts[q] = [count |-> 2, size |-> 0]
        /\ Len(routed[q]) = 3
        /\ Stalled(q)
        /\ Range(delivered[q]) = unacked
        /\ Cardinality(unacked) = 2

\* C9: once an Exchange.Close or Queue.Close has returned, the channel and the
\* connection are both live or both closed.
C9_BothOrNeither ==
    (caller = Idle /\ (exRes.ret # "none" \/ \E q \in Queues : qcloseRet[q] # "none"))
        => (chanOpen <=> connOpen)

\* C10: Exchange.Close closes the connection only after the channel close
\* succeeded; a channel close error is the result and the connection close is
\* then not attempted; otherwise the result is that of the connection close.
C10_CloseOrder ==
    /\ exRes.chan = "err" => (exRes.ret = "err" /\ exRes.conn = "none")
    /\ exRes.conn # "none" =>
           /\ exRes.chan = "ok"
           /\ exRes.ret = (IF exRes.conn = "ok" THEN "nil" ELSE "err")
    /\ caller.pc = "e_conn" => (exRes.chan = "ok" /\ ~chanOpen)
    /\ (exRes.conn = "ok" /\ caller.pc # "e_conn") => (~chanOpen /\ ~connOpen)

\* C10 witness: the channel close succeeded, the connection close failed, and
\* Exchange.Close returned the connection's error.
C10_Witness ==
    /\ caller = Idle
    /\ exRes = [chan |-> "ok", conn |-> "err", ret |-> "err"]

\* C11 as first stated: Queue.Close never returns but out of its wait for the
\* close notification.
C11_AlwaysWaits ==
    [][\A q \in Queues : qcloseRet'[q] # qcloseRet[q] => caller.pc = "q_wait"]_vars

\* C11: when its cancel step succeeds, Queue.Close goes on in this order:
\* cancel of the consumer named after the queue (the consumer is gone when the
\* next step starts), registration for the close notification, Exchange.Close
\* (attempted, and the channel closed, when the wait starts), the wait. It
\* returns only out of the wait, once the notification or the closing of its
\* channel is there, with the notified error if there is one and nil if not.
C11_CloseSteps ==
    [][/\ (caller'.pc = "q_notify" /\ caller # caller') =>
              /\ caller = Idle /\ chanOpen
              /\ ~consumer'[caller'.q]
       /\ (caller'.pc = "q_exch" /\ caller # caller') =>
              /\ caller = [pc |-> "q_notify", q |-> caller'.q]
              /\ exRes' = exRes /\ chanOpen' = chanOpen
       /\ (caller'.pc = "q_wait" /\ caller # caller') =>
              /\ caller.q = caller'.q
              /\ caller.pc \in {"q_exch", "e_conn"}
              /\ exRes'.ret # "none" /\ ~chanOpen'
       /\ \A q \in Queues :
              (qcloseRet'[q] # qcloseRet[q] /\ caller # Idle) =>
                  /\ caller = [pc |-> "q_wait", q |-> q]
                  /\ notify \in {"err", "closed"}
                  /\ qcloseRet'[q] = (IF notify = "err" THEN "err" ELSE "nil")
                  /\ caller' = Idle]_vars

\* C11 witness: a Queue.Close whose cancel succeeded has returned the error
\* that was notified.
C11_Witness ==
    \E q \in OneQueue :
        /\ caller = Idle
        /\ cancelled[q]
        /\ qcloseRet[q] = "err"

\* C12: while the channel of the Exchange is closed (after Exchange.Close, a
\* Queue.Close, or otherwise), no call publishes a message, purges a queue,
\* declares a Queue, binds, starts a consumer or spawns a consume task, and
\* what NewQueue, Publish, Purge and Subscribe return is an error; Publish on
\* an Exchange whose channel is nil returns the nil-channel error and
\* publishes nothing.
C12_ClosedRefuses ==
    [][/\ ~chanOpen =>
              /\ nPub' = nPub /\ routed' = routed /\ ready' = ready
              /\ declared' = declared /\ bound' = bound
              /\ consumer' = consumer
              /\ spawned' = spawned /\ subOk' = subOk
              /\ \A q \in Queues : pc[q] \in {"none", "done"} => pc'[q] = pc[q]
              /\ \A q \in Queues : subRet'[q] # subRet[q] => subRet'[q] = "err"
       /\ (~chanOpen /\ ~chanNil /\ lastErr' # lastErr) =>
              /\ lastErr'.op \in {"NewQueue", "Publish", "Purge"}
              /\ lastErr'.err = "ErrClosed"
       /\ (chanNil /\ lastErr' # lastErr) =>
              lastErr' = [op |-> "Publish", err |-> "channel is nil"]]_vars

\* C12 witness: Exchange.Close returned nil; after it a Subscribe and then a
\* Purge were refused.
C12_Witness ==
    \E q \in OneQueue :
        /\ exRes.ret = "nil"
        /\ subRet[q] = "err"
        /\ lastErr = [op |-> "Purge", err |-> "ErrClosed"]
        /\ nPub = 0 /\ pc[q] = "none"

\* C13 as first stated: once the consume task of a Queue has terminated, the
\* Queue never has a running consume task again.
C13_NoRestart ==
    [][\A q \in Queues : pc[q] = "done" => pc'[q] = "done"]_vars

\* C13: the consume task of a Queue moves only none -> receiving <-> sending,
\* receiving -> terminated; a task is started only by a Subscribe on a live
\* channel; and once the task has terminated and the channel is closed (a
\* disconnect, or Close) the Queue never has a running task again. A restart
\* happens only on a live channel, after a cancel of the consumer.
C13_Lifecycle ==
    [][\A q \in Queues :
          /\ pc'[q] # pc[q] =>
                 <<pc[q], pc'[q]>> \in {<<"none", "recv">>, <<"recv", "send">>,
                                        <<"send", "recv">>, <<"recv", "done">>,
                                        <<"done", "recv">>}
          /\ (pc[q] \in {"none", "done"} /\ pc'[q] = "recv") =>
                 /\ chanOpen
                 /\ caller = [pc |-> "s_consume", q |-> q]
          /\ (pc[q] = "done" /\ pc'[q] = "recv") => cancelled[q]
          /\ (pc[q] = "done" /\ ~chanOpen) => pc'[q] = "done"]_vars

\* C13 witness: the task terminated, Queue.Close returned nil, and a
\* Subscribe made after that was refused.
C13_Witness ==
    \E q \in OneQueue :
        /\ pc[q] = "done"
        /\ qcloseRet[q] = "nil"
        /\ subOk[q] = 1
        /\ subRet[q] = "err"

\* C14 as first stated, its last part: no second Ack or Nack call on one
\* delivery succeeds (returns nil).
C14_OneCallSucceeds == ~ackedTwice

\* C14: every Message received carries the delivery (and so the delivery tag)
\* the broker placed at that position of the stream; while the channel stays
\* live a step takes at most one delivery out of the unacknowledged ones, one
\* that the reader holds, and a delivery taken out never comes back; so an
\* Ack or Nack settles the delivery of its Message and no other. A second
\* call on one delivery returns nil as well and settles nothing: the channel
\* is closed by it.
C14_OwnTagOnly ==
    [][/\ \A q \in Queues : \A i \in 1..Len(recvd[q]) :
              recvd[q][i] = delivered[q][i]
       /\ chanOpen' =>
              /\ Cardinality(unacked \ unacked') <= 1
              /\ (unacked \ unacked') \subseteq Received
       /\ \A q \in Queues :
              (Range(delivered[q]) \ unacked) \cap unacked' = {}
       /\ (ackedTwice' # ackedTwice) => (chanOpen /\ ~chanOpen' /\ unacked' = {})]_vars

\* C14 witness: the reader holds two Messages, has settled the first, and the
\* second is still unacknowledged on the live channel.
C14_Witness ==
    \E d, e \in Received :
        /\ d.tag < e.tag
        /\ chanOpen
        /\ d \notin unacked
        /\ e \in unacked

\* C15: the consume task holds a delivery exactly while it stands at the send
\* on the output channel, and the deliveries it has taken from the stream
\* number those the reader has received plus the one it holds: at most r + 1
\* when the reader has received r Messages.
C15_OneInHand ==
    \A q \in Queues :
        /\ (held[q] # NoDelivery) <=> (pc[q] = "send")
        /\ taken[q] = Len(recvd[q]) + (IF pc[q] = "send" THEN 1 ELSE 0)
        /\ taken[q] <= Len(recvd[q]) + 1
        /\ taken[q] + Len(dd[q]) <= Len(delivered[q])

\* C15 witness: the reader received one Message and stopped; the task holds
\* the second delivery at the send while a third waits on the stream.
C15_Witness ==
    \E q \in OneQueue :
        /\ Len(recvd[q]) = 1 /\ ~reading[q]
        /\ pc[q] = "send" /\ taken[q] = 2
        /\ Len(dd[q]) = 1

\* C16: with two subscribed Queues on one Exchange, once a Close of one of
\* them has returned nil the shared channel and the shared connection are
\* closed and the delivery stream of the other Queue is closed; and a Close of
\* a Queue that failed at the cancel step has not closed the Exchange again.
C16_SharedClose ==
    \A q \in Queues : \A o \in Queues \ {q} :
        (caller = Idle /\ spawned[q] = 1 /\ spawned[o] = 1 /\ qcloseRet[q] = "nil") =>
            /\ ~chanOpen /\ ~connOpen
            /\ StreamClosed(o)
            /\ qcloseRet[o] # "nil"

\* C17: a NewQueue that returns a Queue sets the channel's prefetch limit to
\* its (PrefetchCount, PrefetchSize) when one of the two is positive and
\* leaves the limit as it is when both are zero; nothing else changes the
\* limit. So the limit is the initial one while no Queue was built with a
\* positive value, and otherwise the pair of the latest Queue built with one.
C17_LatestPositive ==
    [][/\ \A q \in Queues :
              (q \notin declared /\ q \in declared') =>
                  qos' = IF opts'[q].count > 0 \/ opts'[q].size > 0
                         THEN opts'[q]
                         ELSE qos
       /\ declared' = declared => qos' = qos
       /\ (\A q \in declared' : opts'[q] = NoQos) => qos' = NoQos
       /\ qos' # NoQos => \E q \in declared' : opts'[q] = qos']_vars

\* C17 witness: q1 was built with (1, 0), then q2 with (0, 2); the limit is
\* the pair of q2.
C17_Witness ==
    /\ declared = Queues
    /\ opts["q1"] = [count |-> 1, size |-> 0]
    /\ opts["q2"] = [count |-> 0, size |-> 2]
    /\ qos = [count |-> 0, size |-> 2]

C19_CancelError ==
    [][/\ \A q \in Queues :
              (caller = Idle /\ qcloseRet'[q] # qcloseRet[q]) =>
                  /\ ~chanOpen
                  /\ qcloseRet'[q] = "err"
                  /\ caller' = Idle
                  /\ notify' = notify /\ exRes' = exRes
                  /\ chanOpen' = chanOpen /\ connOpen' = connOpen
                  /\ consumer' = consumer /\ cancelled' = cancelled
       /\ (caller = Idle /\ ~chanOpen) => caller'.pc \notin {"q_notify", "q_exch", "q_wait"}]_vars

\* C19 witness: a channel exception closed the channel; Queue.Close then
\* failed at the cancel step and the connection is still live, no
\* Exchange.Close having been made.
C19_Witness ==
    \E q \in OneQueue :
        /\ caller = Idle
        /\ qcloseRet[q] = "err"
        /\ ~cancelled[q]
        /\ exRes.ret = "none" /\ notify = "none"
        /\ ~chanOpen /\ connOpen

\* C20: a consumer is started only by the consume step of a Subscribe whose
\* bind succeeded; a Subscribe that returns an error, at the bind or at the
\* consume step, starts no task (and at the bind no consumer); a Subscribe
\* that returns nil starts exactly one. So the tasks spawned for a Queue number
\* the Subscribe calls on it that returned nil, and while there is none
\* nothing is taken from a stream or sent on the output channel.
C20_SpawnOnSuccess ==
    [][\A q \in Queues :
          /\ spawned[q] = subOk[q] /\ spawned'[q] = subOk'[q]
          /\ subOk'[q] = 0 => (pc'[q] = "none" /\ taken'[q] = 0 /\ recvd'[q] = <<>>)
          /\ (consumer'[q] /\ ~consumer[q]) =>
                 (caller = [pc |-> "s_consume", q |-> q] /\ bound[q])
          /\ (subRet'[q] # subRet[q] /\ subRet'[q] = "err") =>
                 /\ spawned' = spawned /\ pc' = pc
                 /\ consumer' = consumer
                 /\ caller = Idle => bound' = bound
          /\ spawned'[q] # spawned[q] =>
                 /\ spawned'[q] = spawned[q] + 1
                 /\ subRet'[q] = "nil" /\ pc'[q] = "recv"
                 /\ consumer'[q] /\ caller' = Idle]_vars

\* C20 witness: the bind of a Subscribe succeeded and its consume step
\* failed: the queue is bound, no consumer and no task were ever started.
C20_Witness ==
    \E q \in OneQueue :
        /\ caller = Idle
        /\ subRet[q] = "err"
        /\ bound[q]
        /\ spawned[q] = 0 /\ pc[q] = "none"
        /\ recvd[q] = <<>>

=============================================================================
